---- MODULE Spec2Model ----
(***************************************************************************)
(* A model of www/orm.py: the execution gateway (create_pool,              *)
(* destroy_pool, select, execute), the schema registrar                    *)
(* (ModelMetaClass.__new__) and the record base (Model).                   *)
(*                                                                         *)
(* SQL text is modelled as a sequence of tokens; a token is a string.      *)
(* The placeholder is the token "?", and a back-quoted identifier is       *)
(* written with apostrophes ('id' stands for the back-quoted id).          *)
(* White space between tokens is not modelled.                             *)
(*                                                                         *)
(* Python values are modelled by strings: "None" is None, "" the empty     *)
(* string, "0" the integer zero; every other string is a truthy value.     *)
(***************************************************************************)
EXTENDS Integers, Sequences, FiniteSets, TLC

VARIABLES
    (* ---- schema registrar ---- *)
    decl,        \* the last class statement executed: name, __table__, attributes
    cls,         \* what the metaclass made of it (metadata, or the error raised)
    (* ---- record base and database ---- *)
    inst,        \* the record instance at hand: a dict attribute -> value
    db,          \* the table of the record type: primary key value -> row
    callerWhere, \* the where clause a caller wrote for its args list
    callerArgs,  \* the list object a caller passes as findAll's args
    last,        \* caller -> its latest call of a record operation, and how far it is
    (* ---- execution gateway ---- *)
    pool,        \* the global __pool: 0 while the name is unbound, else a pool id
    poolState,   \* pool id -> "none" (not created) | "open" | "closed"
    pc,          \* task -> position in the coroutine it runs
    call,        \* task -> the call it runs: op, autocommit, sized
    ctx,         \* task -> the pool object its call holds on to (0: none)
    conn,        \* task -> whether it holds a connection of pool ctx
    cur,         \* task -> whether it holds an open cursor
    exc,         \* task -> the exception in flight ("none" if none)
    orig,        \* task -> the first exception raised in the call
    log          \* task -> the pool and transaction events of the call

ormVars  == <<decl, cls, inst, db, callerWhere, callerArgs, last>>
gateVars == <<pool, poolState, pc, call, ctx, conn, cur, exc, orig, log>>
vars     == <<decl, cls, inst, db, callerWhere, callerArgs, last,
              pool, poolState, pc, call, ctx, conn, cur, exc, orig, log>>

(***************************************************************************)
(* Bounds.                                                                 *)
(***************************************************************************)
MaxAttrs == 3      \* attributes in one class declaration
MaxRows  == 2      \* rows the table may hold
MaxArgs  == 3      \* length of the caller's args list
NumTasks == 2      \* concurrent callers of the gateway
MaxPools == 1      \* pool objects created in one run
PoolSize == 1      \* connections one pool hands out (maxsize)

(***************************************************************************)
(* Python values.                                                          *)
(***************************************************************************)
PyNone == "None"

\* Python truthiness: 'not value' at line 268, 'if primaryKey' at 202/211.
Falsy(v) == v \in {"None", "", "0", "False"}

\* getattr(self, key, None) through Model.__getattr__: the dict entry or None.
GetAttr(d, key) == IF key \in DOMAIN d THEN d[key] ELSE PyNone

EmptyDict == [k \in {} |-> PyNone]

\* d[key] = value
SetItem(d, key, value) ==
    [k \in (DOMAIN d) \cup {key} |-> IF k = key THEN value ELSE d[k]]

RECURSIVE Join(_, _)
\* sep.join(parts), parts being a sequence of token sequences.
Join(parts, sep) ==
    IF Len(parts) = 0 THEN <<>>
    ELSE IF Len(parts) = 1 THEN parts[1]
    ELSE parts[1] \o <<sep>> \o Join(Tail(parts), sep)

\* the one element of a singleton set
The(S) == CHOOSE x \in S : TRUE

\* how many times token tok occurs in the token sequence s
Count(s, tok) == Cardinality({i \in 1..Len(s) : s[i] = tok})

\* the format '<bq>%s<bq>' % f of line 219, <bq> being the back quote
Backquote(f) == "'" \o f \o "'"

(***************************************************************************)
(* create_args_string, lines 114-119.                                      *)
(***************************************************************************)
create_args_string(num) == Join([n \in 1..num |-> <<"?">>], ",")

(***************************************************************************)
(* Field, lines 123-160.  A class attribute is either a Field or a plain   *)
(* attribute (isField = FALSE).  default is the value of Field.default;    *)
(* callable says whether that value is a factory, whose result it then is. *)
(***************************************************************************)
Field(name, primary_key, default, callable) ==
    [isField |-> TRUE, name |-> name, primary_key |-> primary_key,
     default |-> default, callable |-> callable]

PlainAttr ==
    [isField |-> FALSE, name |-> PyNone, primary_key |-> FALSE,
     default |-> PyNone, callable |-> FALSE]

\* No metadata: what a class carries when the registrar skipped or refused it.
NoMeta(status, error, name) ==
    [status |-> status, error |-> error, name |-> name, table |-> PyNone,
     mappings |-> EmptyDict, primary_key |-> PyNone, fields |-> <<>>,
     select |-> <<>>, insert |-> <<>>, update |-> <<>>, delete |-> <<>>]

RECURSIVE ScanAttrs(_, _, _, _, _)
\* The loop of lines 192-207 over attrs.items(), from item i on.
ScanAttrs(attrs, i, mappings, fields, primaryKey) ==
    IF i > Len(attrs)
    THEN [raised |-> FALSE, key |-> PyNone, mappings |-> mappings,
          fields |-> fields, primaryKey |-> primaryKey]
    ELSE LET k == attrs[i].k
             v == attrs[i].v
         IN  IF ~v.isField
             THEN ScanAttrs(attrs, i + 1, mappings, fields, primaryKey)
             ELSE IF v.primary_key
                  THEN IF ~Falsy(primaryKey)
                       THEN [raised |-> TRUE, key |-> k, mappings |-> mappings,
                             fields |-> fields, primaryKey |-> primaryKey]
                       ELSE ScanAttrs(attrs, i + 1, SetItem(mappings, k, v),
                                      fields, k)
                  ELSE ScanAttrs(attrs, i + 1, SetItem(mappings, k, v),
                                 Append(fields, k), primaryKey)

\* line 232, the __select__ template
SelectTemplate(tableName, primaryKey, escaped_fields) ==
    <<"select", Backquote(primaryKey), ",">> \o Join(escaped_fields, ",")
        \o <<"from", Backquote(tableName)>>

\* an __insert__ template that lists the primary key first
InsertTemplateKeyFirst(tableName, primaryKey, escaped_fields) ==
    <<"insert into", Backquote(tableName), "(", Backquote(primaryKey), ",">>
        \o Join(escaped_fields, ",") \o <<")", "values", "(">>
        \o create_args_string(Len(escaped_fields) + 1) \o <<")">>

\* lines 233-234, the __insert__ template
InsertTemplate(tableName, primaryKey, escaped_fields) ==
    <<"insert into", Backquote(tableName), "(">> \o Join(escaped_fields, ",")
        \o <<",", Backquote(primaryKey), ")", "values", "(">>
        \o create_args_string(Len(escaped_fields) + 1) \o <<")">>

\* lines 235-236, the __update__ template; its last character is '>'
UpdateTemplate(tableName, primaryKey, fields, mappings) ==
    <<"update", Backquote(tableName), "set">>
        \o Join([i \in 1..Len(fields) |->
                    <<Backquote(IF Falsy(mappings[fields[i]].name)
                                THEN fields[i]
                                ELSE mappings[fields[i]].name), "=", "?">>], ",")
        \o <<"where", Backquote(primaryKey), "=", ">">>

\* line 237, the __delete__ template
DeleteTemplate(tableName, primaryKey) ==
    <<"delete from", Backquote(tableName), "where", Backquote(primaryKey),
      "=", "?">>

(***************************************************************************)
(* ModelMetaClass.__new__, lines 179-239.  name is the class name, table   *)
(* the value of its __table__ attribute (None when it has none), attrs the *)
(* other class attributes in declaration order.                            *)
(***************************************************************************)
ModelMetaClass(name, table, attrs) ==
    IF name = "Model" THEN NoMeta("plain", "none", name)
    ELSE
    LET tableName == IF Falsy(table) THEN name ELSE table
        scan      == ScanAttrs(attrs, 1, EmptyDict, <<>>, PyNone)
        escaped_fields == [i \in 1..Len(scan.fields) |->
                              <<Backquote(scan.fields[i])>>]
    IN  IF scan.raised
        THEN NoMeta("raised", "Duplicate primary key", name)
        ELSE IF Falsy(scan.primaryKey)
        THEN NoMeta("raised", "Primary key is not found", name)
        ELSE [status      |-> "registered",
              error       |-> "none",
              name        |-> name,
              table       |-> tableName,
              mappings    |-> scan.mappings,
              primary_key |-> scan.primaryKey,
              fields      |-> scan.fields,
              select |-> SelectTemplate(tableName, scan.primaryKey, escaped_fields),
              insert |-> InsertTemplate(tableName, scan.primaryKey, escaped_fields),
              update |-> UpdateTemplate(tableName, scan.primaryKey, scan.fields,
                                        scan.mappings),
              delete |-> DeleteTemplate(tableName, scan.primaryKey)]

(***************************************************************************)
(* The database behind the driver.  The table of the record type has one  *)
(* column per declared attribute, named as the attribute, and the primary *)
(* key attribute is its primary key.  db maps each stored primary key     *)
(* value to its row, a dict column -> value.  Statements arrive as the    *)
(* token sequence with "%s" markers and the arguments bound to them in    *)
(* order (the driver's query % args).                                     *)
(***************************************************************************)
PkOrder == <<"a", "b">>       \* the primary key values, in index order

TableCols(meta) == {meta.primary_key} \cup {meta.fields[i] : i \in 1..Len(meta.fields)}

\* first position of tok in s, 0 when absent
IndexOf(s, tok) ==
    IF \E i \in 1..Len(s) : s[i] = tok
    THEN CHOOSE i \in 1..Len(s) : s[i] = tok /\ \A j \in 1..(i - 1) : s[j] # tok
    ELSE 0

\* a comma separated list of items: item , item , ... , item
ParseList(toks) ==
    [ok    |-> /\ Len(toks) % 2 = 1
               /\ \A i \in 1..Len(toks) : (toks[i] = ",") <=> (i % 2 = 0),
     items |-> [j \in 1..((Len(toks) + 1) \div 2) |-> toks[2 * j - 1]]]

IsCol(tok, meta) == \E c \in TableCols(meta) : tok = Backquote(c)
ColOf(tok, meta) == CHOOSE c \in TableCols(meta) : tok = Backquote(c)

DbError(error, db0) ==
    [raised |-> TRUE, error |-> error, affected |-> 0, rows |-> <<>>, db |-> db0]

\* insert into T (c1,...,cn) values(%s,...,%s), the names being items
DbInsertRow(items, args, meta, db0) ==
    IF \/ \E i \in 1..Len(items) : ~IsCol(items[i], meta)
       \/ Len(items) # Len(args)
    THEN DbError("ProgrammingError", db0)
    ELSE The({IF row[meta.primary_key] = PyNone \/ row[meta.primary_key] \in DOMAIN db0
              THEN DbError("IntegrityError", db0)
              ELSE [raised |-> FALSE, error |-> "none", affected |-> 1, rows |-> <<>>,
                    db |-> SetItem(db0, row[meta.primary_key], row)] :
              row \in {[c \in TableCols(meta) |->
                          IF \E i \in 1..Len(items) : items[i] = Backquote(c)
                          THEN args[CHOOSE i \in 1..Len(items) : items[i] = Backquote(c)]
                          ELSE PyNone]}})

DbInsertAt(q, args, meta, db0, close) ==
    IF \/ Len(q) < 3 \/ q[3] # "(" \/ close < 4
       \/ q[2] # Backquote(meta.table)
       \/ SubSeq(q, close + 1, close + 2) # <<"values", "(">>
       \/ q[Len(q)] # ")"
       \/ ~ParseList(SubSeq(q, close + 3, Len(q) - 1)).ok
       \/ ~ParseList(SubSeq(q, 4, close - 1)).ok
    THEN DbError("ProgrammingError", db0)
    ELSE The({DbInsertRow(items, args, meta, db0) :
              items \in {ParseList(SubSeq(q, 4, close - 1)).items}})

DbInsert(q, args, meta, db0) ==
    The({DbInsertAt(q, args, meta, db0, close) : close \in {IndexOf(q, ")")}})

\* delete from T where c = %s
DbDelete(q, args, meta, db0) ==
    IF \/ Len(q) # 6 \/ q[2] # Backquote(meta.table) \/ q[3] # "where"
       \/ ~IsCol(q[4], meta) \/ q[5] # "=" \/ q[6] # "%s"
    THEN DbError("ProgrammingError", db0)
    ELSE LET gone == {k \in DOMAIN db0 : db0[k][ColOf(q[4], meta)] = args[1]}
         IN  [raised |-> FALSE, error |-> "none", affected |-> Cardinality(gone),
              rows |-> <<>>, db |-> [k \in (DOMAIN db0) \ gone |-> db0[k]]]

\* the stored keys among keep, in primary key order
KeysInOrder(keep) ==
    LET idx == {i \in 1..Len(PkOrder) : PkOrder[i] \in keep}
    IN  [n \in 1..Cardinality(idx) |->
            PkOrder[CHOOSE i \in idx : Cardinality({j \in idx : j <= i}) = n]]

\* the integer a bound limit argument stands for
IntOf(v) == IF v = "0" THEN 0 ELSE IF v = "1" THEN 1 ELSE 2

\* what may follow "from T": [where c = %s] [order by c] [limit %s [, %s]]
Clauses(meta) ==
    {[where |-> w, order |-> o, limit |-> l] :
        w \in {<<>>} \cup {<<"where", Backquote(c), "=", "%s">> : c \in TableCols(meta)},
        o \in {<<>>} \cup {<<"order by", Backquote(c)>> : c \in TableCols(meta)},
        l \in {<<>>, <<"limit", "%s">>, <<"limit", "%s", ",", "%s">>}}

\* the rows a well formed select returns: filtered, in key order, limited,
\* projected on the selected columns
SelectRows(items, c, args, meta, db0) ==
    LET nW     == IF Len(c.where) > 0 THEN 1 ELSE 0
        keep   == {k \in DOMAIN db0 :
                      Len(c.where) > 0 => db0[k][ColOf(c.where[2], meta)] = args[1]}
        offset == IF Len(c.limit) = 4 THEN IntOf(args[nW + 1]) ELSE 0
        count  == IF Len(c.limit) = 0 THEN Cardinality(keep)
                  ELSE IntOf(args[nW + Len(c.limit) \div 2])
    IN  The({[i \in 1..(IF offset + count < Len(keys) THEN count
                        ELSE IF offset < Len(keys) THEN Len(keys) - offset ELSE 0) |->
                 [col \in {ColOf(items[j], meta) : j \in 1..Len(items)} |->
                     db0[keys[offset + i]][col]]] :
             keys \in {KeysInOrder(keep)}})

\* select list from T [where c = %s] [order by c] [limit %s [, %s]]
DbSelectAt(q, args, meta, db0, from) ==
    IF \/ from = 0 \/ from + 1 > Len(q)
       \/ ~ParseList(SubSeq(q, 2, from - 1)).ok
       \/ \E i \in 2..(from - 1) : q[i] # "," /\ ~IsCol(q[i], meta)
       \/ q[from + 1] # Backquote(meta.table)
       \/ ~\E c \in Clauses(meta) : SubSeq(q, from + 2, Len(q)) = c.where \o c.order \o c.limit
    THEN DbError("ProgrammingError", db0)
    ELSE The({[raised |-> FALSE, error |-> "none", affected |-> Len(rows),
               rows |-> rows, db |-> db0] :
              rows \in {SelectRows(ParseList(SubSeq(q, 2, from - 1)).items, c, args,
                                   meta, db0) :
                        c \in {d \in Clauses(meta) :
                                 SubSeq(q, from + 2, Len(q)) = d.where \o d.order \o d.limit}}})

DbSelect(q, args, meta, db0) ==
    The({DbSelectAt(q, args, meta, db0, from) : from \in {IndexOf(q, "from")}})

(***************************************************************************)
(* What cur.execute and the fetch give the record base: the statement on  *)
(* the table as it is when it runs.  The pool is open, the connection is  *)
(* there, and the driver fails only where the statement makes it fail.    *)
(***************************************************************************)
\* sql.replace('?', '%s'), lines 76 and 99
Replace(sql) == [i \in 1..Len(sql) |-> IF sql[i] = "?" THEN "%s" ELSE sql[i]]

\* query % args, the first thing cur.execute does, before it awaits anything:
\* it raises TypeError unless there is one argument per marker
Formatted(q, args) == Count(q, "%s") = Len(args)

\* the formatted statement q runs on the database
RunStatement(q, args, meta, db0) ==
    IF Len(q) = 0 THEN DbError("ProgrammingError", db0)
    ELSE IF q[1] = "insert into" THEN DbInsert(q, args, meta, db0)
    ELSE IF q[1] = "delete from" THEN DbDelete(q, args, meta, db0)
    ELSE IF q[1] = "select" THEN DbSelect(q, args, meta, db0)
    ELSE DbError("ProgrammingError", db0)

\* await cur.execute(sql.replace('?', '%s'), args): the statement is
\* formatted, then it runs
CursorExecute(sql, args, meta, db0) ==
    The({IF Formatted(q, args) THEN RunStatement(q, args, meta, db0)
         ELSE DbError("TypeError", db0) : q \in {Replace(sql)}})

\* select(sql, args, size), lines 66-84; size 0 stands for None
select(sql, args, size, meta, db0) ==
    The({IF r.raised THEN r
         ELSE [r EXCEPT !.rows = IF size # 0 /\ size < Len(r.rows)
                                 THEN SubSeq(r.rows, 1, size) ELSE r.rows] :
         r \in {CursorExecute(sql, args, meta, db0)}})

\* execute(sql, args), lines 90-108, autocommit left at its default
execute(sql, args, meta, db0) == CursorExecute(sql, args, meta, db0)

(***************************************************************************)
(* Model, lines 249-344.                                                   *)
(***************************************************************************)
\* getValue, lines 262-264
getValue(self, key) == GetAttr(self, key)

\* getValueOrDefault, lines 266-274.  Line 270 reads filter.default, an
\* attribute the builtin filter does not have: AttributeError.
getValueOrDefault(self, key) ==
    LET value == GetAttr(self, key)
    IN  IF Falsy(value)
        THEN [raised |-> TRUE, error |-> "AttributeError", value |-> value]
        ELSE [raised |-> FALSE, error |-> "none", value |-> value]

\* the attributes save and update bind, in binding order (327-328, 334-335)
BindKeys(meta) == meta.fields \o <<meta.primary_key>>

\* list(map(self.getValueOrDefault, ...)) and the append of line 328
SaveArgs(self, meta) ==
    LET keys == BindKeys(meta)
    IN  [raised |-> \E i \in 1..Len(keys) : getValueOrDefault(self, keys[i]).raised,
         args   |-> [i \in 1..Len(keys) |-> getValueOrDefault(self, keys[i]).value]]

\* lines 334-335
UpdateArgs(self, meta) ==
    [i \in 1..Len(BindKeys(meta)) |-> getValue(self, BindKeys(meta)[i])]

NoFound  == [none |-> TRUE, rec |-> EmptyDict]
Found(r) == [none |-> FALSE, rec |-> r]

\* A call of a record operation: the coroutine of one caller.
\* phase: "pending" once the synchronous part has run and the coroutine is
\* suspended in the acquisition; "bound" once cur.execute has been called,
\* has read the arguments and is suspended while the statement is on its
\* way; "executed" once the statement has run and the coroutine is
\* suspended on the way out; "done" once it has returned or raised.  self
\* is the instance as save or update read it; shared says that args is the
\* caller's own list object.
Coro(op, phase, self, sql, args, shared) ==
    [op |-> op, phase |-> phase, self |-> self, sql |-> sql, args |-> args,
     shared |-> shared, raised |-> FALSE, error |-> "none",
     rows |-> <<>>, found |-> NoFound]

NoCoro == Coro("none", "done", EmptyDict, <<>>, <<>>, FALSE)

\* the call raises e in its synchronous part
Raised(op, e) ==
    [Coro(op, "done", EmptyDict, <<>>, <<>>, FALSE) EXCEPT !.raised = TRUE, !.error = e]

(***************************************************************************)
(* Inputs.                                                                 *)
(***************************************************************************)
ClassNames == {"Model", "User"}
TableAttrs == {PyNone, "users"}
AttrNames  == {"id", "name", "email", "passwd"}
Defaults   == {<<PyNone, FALSE>>, <<"d", TRUE>>}     \* <<default, callable>>

\* what a class body may bind an attribute to
AttrValues ==
    {PlainAttr} \cup {Field(n, p, d[1], d[2]) :
                          n \in {PyNone, "col"}, p \in BOOLEAN, d \in Defaults}

\* class bodies: up to MaxAttrs distinct attribute names, in declaration order
AttrLists(values) ==
    UNION {{a \in [1..n -> [k : AttrNames, v : values]] :
                \A i, j \in 1..n : a[i].k = a[j].k => i = j} :
           n \in 0..(IF MaxAttrs < Cardinality(AttrNames)
                     THEN MaxAttrs ELSE Cardinality(AttrNames))}

Declaration(name, table, attrs) == [name |-> name, table |-> table, attrs |-> attrs]

\* record types the record base is exercised with: columns named as the
\* attributes; a key alone, a key after a plain field, a key before a field
\* with a default
OrmDecls ==
    {Declaration("User", PyNone, a) :
        a \in {<<[k |-> "id", v |-> Field(PyNone, TRUE, "0", FALSE)]>>,
               <<[k |-> "name", v |-> Field(PyNone, FALSE, PyNone, FALSE)],
                 [k |-> "id", v |-> Field(PyNone, TRUE, PyNone, FALSE)]>>,
               <<[k |-> "id", v |-> Field(PyNone, TRUE, "0", FALSE)],
                 [k |-> "name", v |-> Field(PyNone, FALSE, "d", TRUE)]>>}}

Values    == {"0", "a", "b"}        \* attribute values: one falsy, two truthy
PkValues  == {PkOrder[i] : i \in 1..Len(PkOrder)}

\* limit arguments of findAll: None, an int, a tuple, a str
Limits ==
    {[kind |-> "none", items |-> <<>>],
     [kind |-> "int", items |-> <<"1">>],
     [kind |-> "tuple", items |-> <<"0", "1">>],
     [kind |-> "tuple", items |-> <<"1">>],
     [kind |-> "str", items |-> <<"x">>]}

\* every dict over a subset of keys
Dicts(keys, values) == UNION {[d -> values] : d \in SUBSET keys}

(***************************************************************************)
(* Class declaration: the class statement runs ModelMetaClass.__new__.     *)
(* The metaclass keeps nothing from one class statement to the next, so a  *)
(* behaviour declares one class after the base class Model.                *)
(***************************************************************************)
Declare(name, table, attrs) ==
    /\ decl = Declaration("Model", PyNone, <<>>)    \* the first class after Model
    /\ decl' = Declaration(name, table, attrs)
    /\ cls'  = ModelMetaClass(name, table, attrs)
    /\ UNCHANGED <<inst, db, callerWhere, callerArgs, last>>
    /\ UNCHANGED gateVars

(***************************************************************************)
(* Record base operations.  A call runs synchronously up to the first      *)
(* await of the gateway (the acquisition at 72, 93); there and at every    *)
(* later await other coroutines run.  Once the connection is there         *)
(* cur.execute is called (76, 99): it reads the argument list as it is     *)
(* then and is awaited; the statement takes effect while it is awaited,    *)
(* on the table as it is then.  The call returns to its caller after the   *)
(* awaits on the way out.  Here the pool is open and the driver fails only *)
(* where the statement makes it fail.                                      *)
(***************************************************************************)
\* caller t is free to make a call
Idle(t) == cls.status = "registered" /\ last[t].phase = "done"

\* cls(**kw): dict.__init__ (Model defines __index__, not __init__)
New(kw) ==
    /\ cls.status = "registered"
    /\ inst' = kw
    /\ UNCHANGED <<decl, cls, db, callerWhere, callerArgs, last>>
    /\ UNCHANGED gateVars

\* Model.__setattr__, lines 259-260
SetAttr(key, value) ==
    /\ cls.status = "registered"
    /\ inst' = SetItem(inst, key, value)
    /\ UNCHANGED <<decl, cls, db, callerWhere, callerArgs, last>>
    /\ UNCHANGED gateVars

\* Model.save, lines 326-329, up to the first await inside execute
Save(t) ==
    /\ Idle(t)
    /\ \E b \in {SaveArgs(inst, cls)} :
         last' = [last EXCEPT ![t] =
                    IF b.raised THEN Raised("save", "AttributeError")
                    ELSE Coro("save", "pending", inst, cls.insert, b.args, FALSE)]
    /\ UNCHANGED <<decl, cls, inst, db, callerWhere, callerArgs>>
    /\ UNCHANGED gateVars

\* Model.update, lines 333-336, up to the first await inside execute
Update(t) ==
    /\ Idle(t)
    /\ last' = [last EXCEPT ![t] =
                  Coro("update", "pending", inst, cls.update, UpdateArgs(inst, cls),
                       FALSE)]
    /\ UNCHANGED <<decl, cls, inst, db, callerWhere, callerArgs>>
    /\ UNCHANGED gateVars

\* Model.remove, lines 340-342, up to the first await inside execute
Remove(t) ==
    /\ Idle(t)
    /\ last' = [last EXCEPT ![t] =
                  Coro("remove", "pending", EmptyDict, cls.delete,
                       <<getValue(inst, cls.primary_key)>>, FALSE)]
    /\ UNCHANGED <<decl, cls, inst, db, callerWhere, callerArgs>>
    /\ UNCHANGED gateVars

\* the statement find dispatches, line 321
FindSql(meta) == meta.select \o <<"where", Backquote(meta.primary_key), "=", "?">>

\* Model.find, lines 318-321, up to the first await inside select
Find(t, pk) ==
    /\ Idle(t)
    /\ last' = [last EXCEPT ![t] =
                  Coro("find", "pending", EmptyDict, FindSql(cls), <<pk>>, FALSE)]
    /\ UNCHANGED <<decl, cls, inst, db, callerWhere, callerArgs>>
    /\ UNCHANGED gateVars

\* the caller builds a where clause and a new list of its arguments; no
\* call still holds the list it had before
NewArgs(byKey, v) ==
    /\ cls.status = "registered"
    /\ \A t \in DOMAIN last : last[t].phase = "done"
    /\ callerWhere' = IF byKey THEN <<Backquote(cls.primary_key), "=", "?">> ELSE <<>>
    /\ callerArgs'  = IF byKey THEN <<v>> ELSE <<>>
    /\ UNCHANGED <<decl, cls, inst, db, last>>
    /\ UNCHANGED gateVars

\* the statement findAll builds, lines 280-301, for a valid limit
FindAllSql(meta, where, orderBy, limit) ==
    meta.select
      \o (IF Len(where) > 0 THEN <<"where">> \o where ELSE <<>>)
      \o (IF orderBy THEN <<"order by", Backquote(meta.primary_key)>> ELSE <<>>)
      \o (IF limit.kind = "none" THEN <<>>
          ELSE <<"limit">> \o Join([i \in 1..Len(limit.items) |-> <<"?">>], ","))

\* the list after args.append(limit) at line 297, args.extend(limit) at 300
FindAllArgs(args, limit) ==
    IF limit.kind = "none" THEN args ELSE args \o limit.items

\* Model.findAll, lines 277-303, up to the first await inside select.
\* passArgs: the caller passes its where and its list, and args is that
\* very list; otherwise where and args are left at None and findAll makes
\* a list of its own (line 285).
FindAll(t, passArgs, orderBy, limit) ==
    /\ Idle(t)
    /\ IF limit.kind = "str" \/ (limit.kind = "tuple" /\ Len(limit.items) # 2)
       THEN /\ callerArgs' = callerArgs
            /\ last' = [last EXCEPT ![t] = Raised("findAll", "ValueError")]
       ELSE \E sql \in {FindAllSql(cls, IF passArgs THEN callerWhere ELSE <<>>,
                                   orderBy, limit)},
               args \in {FindAllArgs(IF passArgs THEN callerArgs ELSE <<>>, limit)} :
              /\ Len(args) <= MaxArgs
              /\ callerArgs' = IF passArgs THEN args ELSE callerArgs
              /\ last' = [last EXCEPT ![t] =
                            Coro("findAll", "pending", EmptyDict, sql,
                                 IF passArgs THEN <<>> ELSE args, passArgs)]
    /\ UNCHANGED <<decl, cls, inst, db, callerWhere>>
    /\ UNCHANGED gateVars

\* the list object the pending call of t holds, as it is now
BoundArgs(t) == IF last[t].shared THEN callerArgs ELSE last[t].args

\* the size the operation passes to select: 1 for find (321), None for
\* findAll (303)
SizeOf(op) == IF op = "find" THEN 1 ELSE 0

\* what the statement left in the coroutine of operation op: the rows, or
\* the exception on its way out
Executed(op, r) ==
    [Coro(op, "executed", EmptyDict, <<>>, <<>>, FALSE)
        EXCEPT !.raised = r.raised, !.error = r.error, !.rows = r.rows]

\* what is left of a call that has returned or raised: find returns None or
\* cls(**res[0]) (322-324), findAll the rows (304), the others nothing
Outcome(c) ==
    [Coro(c.op, "done", EmptyDict, <<>>, <<>>, FALSE)
        EXCEPT !.raised = c.raised, !.error = c.error,
               !.rows  = IF c.op = "findAll" /\ ~c.raised THEN c.rows ELSE <<>>,
               !.found = IF c.op = "find" /\ ~c.raised /\ Len(c.rows) > 0
                         THEN Found(c.rows[1]) ELSE NoFound]

\* the acquisition (72, 93) completes and cur.execute is called at line 76
\* (find, findAll) or 99 (save, update, remove): it formats the statement
\* with the argument list as it is now, raising TypeError at once when the
\* two do not fit, and is suspended with the statement on its way
Bind(t) ==
    /\ last[t].phase = "pending"
    /\ \E args \in {BoundArgs(t)} :
         last' = [last EXCEPT ![t] =
                    IF Formatted(Replace(last[t].sql), args)
                    THEN [last[t] EXCEPT !.phase = "bound", !.args = args,
                                         !.shared = FALSE]
                    ELSE Executed(last[t].op, DbError("TypeError", db))]
    /\ UNCHANGED <<decl, cls, inst, db, callerWhere, callerArgs>>
    /\ UNCHANGED gateVars

\* the await of cur.execute (76, 99) completes: the statement has run on
\* the table as it is now, with the arguments read when it was called
RunSql(t) ==
    /\ last[t].phase = "bound"
    /\ \E r \in {IF last[t].op \in {"find", "findAll"}
                 THEN select(last[t].sql, last[t].args, SizeOf(last[t].op), cls, db)
                 ELSE execute(last[t].sql, last[t].args, cls, db)} :
          /\ Cardinality(DOMAIN r.db) <= MaxRows
          /\ db' = r.db
          /\ last' = [last EXCEPT ![t] = Executed(last[t].op, r)]
    /\ UNCHANGED <<decl, cls, inst, callerWhere, callerArgs>>
    /\ UNCHANGED gateVars

\* the gateway returns or raises into the operation, which returns or
\* raises to its caller (304, 322-324, 330-331, 337-338, 343-344)
Resume(t) ==
    /\ last[t].phase = "executed"
    /\ last' = [last EXCEPT ![t] = Outcome(last[t])]
    /\ UNCHANGED <<decl, cls, inst, db, callerWhere, callerArgs>>
    /\ UNCHANGED gateVars

(***************************************************************************)
(* The execution gateway, step by step.  Every await is a step of its own *)
(* that either completes or raises into the coroutine: a driver error, or *)
(* the CancelledError of a caller that was cancelled while suspended      *)
(* there.  The code treats the two alike (async with, except              *)
(* BaseException), so an exception is named by the await that raised it.  *)
(***************************************************************************)
Tasks   == 1..NumTasks
PoolIds == 1..MaxPools

nPools       == Cardinality({p \in PoolIds : poolState[p] # "none"})
Borrowed(p)  == {t \in Tasks : conn[t] /\ ctx[t] = p}
InFlight     == {t \in Tasks : pc[t] \notin {"idle", "done"}}

\* the select and execute calls: select with or without size, execute with
\* autocommit or inside an explicit transaction
Calls ==
    {[op |-> "select", autocommit |-> TRUE, sized |-> FALSE],
     [op |-> "select", autocommit |-> TRUE, sized |-> TRUE],
     [op |-> "execute", autocommit |-> TRUE, sized |-> FALSE],
     [op |-> "execute", autocommit |-> FALSE, sized |-> FALSE]}

NoCall == [op |-> "none", autocommit |-> TRUE, sized |-> FALSE]

\* the task raises e at its current await
Raise(t, e) ==
    /\ exc'  = [exc EXCEPT ![t] = e]
    /\ orig' = [orig EXCEPT ![t] = IF orig[t] = "none" THEN e ELSE orig[t]]

Note(t, event) == log' = [log EXCEPT ![t] = Append(log[t], event)]

\* create_pool, lines 34-55: the call starts and awaits aiomysql.create_pool
StartCreate(t) ==
    /\ pc[t] = "idle"
    /\ nPools + Cardinality({u \in Tasks : pc[u] = "creating"}) < MaxPools
    /\ pc'   = [pc EXCEPT ![t] = "creating"]
    /\ call' = [call EXCEPT ![t] = [op |-> "create_pool", autocommit |-> TRUE,
                                    sized |-> FALSE]]
    /\ UNCHANGED <<pool, poolState, ctx, conn, cur, exc, orig, log>>
    /\ UNCHANGED ormVars

\* line 41 completes: the new pool object is bound to the global __pool
CreateOk(t) ==
    /\ pc[t] = "creating"
    /\ LET p == nPools + 1
       IN  /\ poolState' = [poolState EXCEPT ![p] = "open"]
           /\ pool' = p
           /\ Note(t, "created")
    /\ pc' = [pc EXCEPT ![t] = "done"]
    /\ UNCHANGED <<call, ctx, conn, cur, exc, orig>>
    /\ UNCHANGED ormVars

\* line 41 raises: __pool is left as it was
CreateFail(t) ==
    /\ pc[t] = "creating"
    /\ Raise(t, "at:create_pool")
    /\ pc' = [pc EXCEPT ![t] = "done"]
    /\ UNCHANGED <<pool, poolState, call, ctx, conn, cur, log>>
    /\ UNCHANGED ormVars

\* destroy_pool, lines 58-62, up to the await: the read of __pool at line 60
\* raises NameError while the name is unbound; otherwise close() at line 61
StartDestroy(t) ==
    /\ pc[t] = "idle"
    /\ call' = [call EXCEPT ![t] = [op |-> "destroy_pool", autocommit |-> TRUE,
                                    sized |-> FALSE]]
    /\ IF pool = 0
       THEN /\ Raise(t, "NameError")
            /\ pc' = [pc EXCEPT ![t] = "done"]
            /\ UNCHANGED <<poolState, ctx, log>>
       ELSE /\ poolState' = [poolState EXCEPT ![pool] = "closed"]
            /\ ctx' = [ctx EXCEPT ![t] = pool]
            /\ Note(t, "close")
            /\ pc' = [pc EXCEPT ![t] = "draining"]
            /\ UNCHANGED <<exc, orig>>
    /\ UNCHANGED <<pool, conn, cur>>
    /\ UNCHANGED ormVars

\* line 62, await __pool.wait_closed(): returns once no connection is out
Drained(t) ==
    /\ pc[t] = "draining"
    /\ Borrowed(ctx[t]) = {}
    /\ Note(t, "drained")
    /\ pc' = [pc EXCEPT ![t] = "done"]
    /\ UNCHANGED <<pool, poolState, call, ctx, conn, cur, exc, orig>>
    /\ UNCHANGED ormVars

\* line 62 raises (the waiting caller is cancelled)
DrainFail(t) ==
    /\ pc[t] = "draining"
    /\ Raise(t, "at:wait_closed")
    /\ pc' = [pc EXCEPT ![t] = "done"]
    /\ UNCHANGED <<pool, poolState, call, ctx, conn, cur, log>>
    /\ UNCHANGED ormVars

\* select (66-72) and execute (90-93) up to the first await: __pool.get().
\* While __pool is unbound the read raises NameError; otherwise the call
\* works on whatever pool the name holds, open or closed.
StartCall(t, c) ==
    /\ pc[t] = "idle"
    /\ call' = [call EXCEPT ![t] = c]
    /\ IF pool = 0
       THEN /\ Raise(t, "NameError")
            /\ Note(t, "get:unbound")
            /\ pc' = [pc EXCEPT ![t] = "done"]
            /\ UNCHANGED ctx
       ELSE /\ ctx' = [ctx EXCEPT ![t] = pool]
            /\ Note(t, IF poolState[pool] = "open" THEN "get:open" ELSE "get:closed")
            /\ pc' = [pc EXCEPT ![t] = "acquire"]
            /\ UNCHANGED <<exc, orig>>
    /\ UNCHANGED <<pool, poolState, conn, cur>>
    /\ UNCHANGED ormVars

\* async with __pool.get() as conn (72, 93): a free connection of an open
\* pool is handed out; the caller waits while all are out
AcquireOk(t) ==
    /\ pc[t] = "acquire"
    /\ poolState[ctx[t]] = "open"
    /\ Cardinality(Borrowed(ctx[t])) < PoolSize
    /\ conn' = [conn EXCEPT ![t] = TRUE]
    /\ Note(t, "acquire")
    /\ pc' = [pc EXCEPT ![t] = IF call[t].op = "execute" /\ ~call[t].autocommit
                               THEN "begin" ELSE "stmt"]
    /\ UNCHANGED <<pool, poolState, call, ctx, cur, exc, orig>>
    /\ UNCHANGED ormVars

\* the acquisition raises: the pool refuses because it is closed
\* (RuntimeError), or, whatever the state of the pool, the driver fails or
\* the waiting caller is cancelled.  No connection was handed out.
AcquireFail(t, e) ==
    /\ pc[t] = "acquire"
    /\ e = "RuntimeError" => poolState[ctx[t]] = "closed"
    /\ Raise(t, e)
    /\ ctx' = [ctx EXCEPT ![t] = 0]
    /\ pc' = [pc EXCEPT ![t] = "done"]
    /\ UNCHANGED <<pool, poolState, call, conn, cur, log>>
    /\ UNCHANGED ormVars

\* a release that is skipped when the block is left by an exception
ReleasedUnlessRaised(t, e) == e # "none"

\* what the exit of the connection's async with (72, 93), entered with
\* exception e in flight, leaves of conn[t]
Released(t, e) == FALSE

\* The coroutine notes events and runs on to its next await, p.  When that
\* is the exit of the connection's async with (72, 93), entered with
\* exception e in flight, the pool's release has taken the connection back
\* by the time the coroutine is suspended there: the release hands the
\* connection over first and only then gives something to await.
Arrive(t, p, events, e) ==
    /\ pc'   = [pc EXCEPT ![t] = p]
    /\ log'  = [log EXCEPT ![t] = log[t] \o events
                   \o (IF p = "release" THEN <<"release">> ELSE <<>>)]
    /\ conn' = [conn EXCEPT ![t] = IF p = "release" THEN Released(t, e) ELSE conn[t]]

\* line 95, await conn.begin(), outside the try block
Begin(t, ok) ==
    /\ pc[t] = "begin"
    /\ IF ok
       THEN /\ Arrive(t, "stmt", <<"begin:ok">>, "none")
            /\ UNCHANGED <<exc, orig>>
       ELSE /\ Arrive(t, "release", <<"begin:fail">>, "at:begin")
            /\ Raise(t, "at:begin")
    /\ UNCHANGED <<pool, poolState, call, ctx, cur>>
    /\ UNCHANGED ormVars

\* lines 74-76 and 98-100: the cursor is opened and cur.execute awaited
Stmt(t, ok) ==
    /\ pc[t] = "stmt"
    /\ cur' = [cur EXCEPT ![t] = TRUE]
    /\ IF ok
       THEN /\ pc' = [pc EXCEPT ![t] = IF call[t].op = "select" THEN "fetch" ELSE "close"]
            /\ UNCHANGED <<exc, orig>>
       ELSE /\ Raise(t, "at:stmt")
            /\ pc' = [pc EXCEPT ![t] = "close"]
    /\ UNCHANGED <<pool, poolState, call, ctx, conn, log>>
    /\ UNCHANGED ormVars

\* lines 78-84: fetchmany(size) when size is given, else fetchall()
Fetch(t, ok) ==
    /\ pc[t] = "fetch"
    /\ IF ok
       THEN /\ Note(t, IF call[t].sized THEN "fetchmany" ELSE "fetchall")
            /\ UNCHANGED <<exc, orig>>
       ELSE Raise(t, "at:fetch") /\ UNCHANGED log
    /\ pc' = [pc EXCEPT ![t] = "close"]
    /\ UNCHANGED <<pool, poolState, call, ctx, conn, cur>>
    /\ UNCHANGED ormVars

\* an execute whose except block forgets the rollback
AfterCursorNoRollback(t, e) ==
    IF call[t].op = "select" \/ call[t].autocommit THEN "release"
    ELSE IF e = "none" THEN "commit" ELSE "release"

\* where the coroutine goes once the cursor block (74, 98) is left with
\* exception e in flight
AfterCursor(t, e) ==
    IF call[t].op = "select" \/ call[t].autocommit THEN "release"
    ELSE IF e = "none" THEN "commit" ELSE "rollback"

\* the cursor's async with exits (74, 98): the cursor's __aexit__ is
\* awaited and may raise; the cursor is closed either way
Close(t, ok) ==
    /\ pc[t] = "close"
    /\ cur' = [cur EXCEPT ![t] = FALSE]
    /\ IF ok
       THEN /\ Arrive(t, AfterCursor(t, exc[t]), <<>>, exc[t])
            /\ UNCHANGED <<exc, orig>>
       ELSE /\ Arrive(t, AfterCursor(t, "at:close"), <<>>, "at:close")
            /\ Raise(t, "at:close")
    /\ UNCHANGED <<pool, poolState, call, ctx>>
    /\ UNCHANGED ormVars

\* lines 101-102, await conn.commit(), inside the try block; then the
\* return of line 108
Commit(t, ok) ==
    /\ pc[t] = "commit"
    /\ IF ok
       THEN /\ Arrive(t, "release", <<"commit:ok">>, "none")
            /\ UNCHANGED <<exc, orig>>
       ELSE /\ Arrive(t, "rollback", <<"commit:fail">>, "at:commit")
            /\ Raise(t, "at:commit")
    /\ UNCHANGED <<pool, poolState, call, ctx, cur>>
    /\ UNCHANGED ormVars

\* lines 103-106: await conn.rollback(), then raise.  When the rollback
\* itself raises, its exception replaces the one being handled.
Rollback(t, ok) ==
    /\ pc[t] = "rollback"
    /\ IF ok
       THEN /\ Arrive(t, "release", <<"rollback:ok">>, exc[t])
            /\ UNCHANGED <<exc, orig>>
       ELSE /\ Arrive(t, "release", <<"rollback:fail">>, "at:rollback")
            /\ Raise(t, "at:rollback")
    /\ UNCHANGED <<pool, poolState, call, ctx, cur>>
    /\ UNCHANGED ormVars

\* the await in the exit of the connection's async with (72, 93) completes
\* or raises, and the call ends, returning (84, 108) or raising exc.  The
\* connection went back to the pool before the coroutine was suspended.
Release(t, ok) ==
    /\ pc[t] = "release"
    /\ IF ok THEN UNCHANGED <<exc, orig>> ELSE Raise(t, "at:release")
    /\ ctx' = [ctx EXCEPT ![t] = 0]
    /\ pc' = [pc EXCEPT ![t] = "done"]
    /\ UNCHANGED <<pool, poolState, call, conn, cur, log>>
    /\ UNCHANGED ormVars

\* the caller has its result or exception; the call is over
Return(t) ==
    /\ pc[t] = "done"
    /\ pc'   = [pc EXCEPT ![t] = "idle"]
    /\ call' = [call EXCEPT ![t] = NoCall]
    /\ ctx'  = [ctx EXCEPT ![t] = 0]
    /\ exc'  = [exc EXCEPT ![t] = "none"]
    /\ orig' = [orig EXCEPT ![t] = "none"]
    /\ log'  = [log EXCEPT ![t] = <<>>]
    /\ UNCHANGED <<pool, poolState, conn, cur>>
    /\ UNCHANGED ormVars

(***************************************************************************)
(* Specifications.                                                         *)
(***************************************************************************)
\* The module has been imported: Model exists, nothing else does; __pool
\* has never been assigned.
InitGate ==
    /\ pool = 0
    /\ poolState = [p \in PoolIds |-> "none"]
    /\ pc   = [t \in Tasks |-> "idle"]
    /\ call = [t \in Tasks |-> NoCall]
    /\ ctx  = [t \in Tasks |-> 0]
    /\ conn = [t \in Tasks |-> FALSE]
    /\ cur  = [t \in Tasks |-> FALSE]
    /\ exc  = [t \in Tasks |-> "none"]
    /\ orig = [t \in Tasks |-> "none"]
    /\ log  = [t \in Tasks |-> <<>>]

InitRecords ==
    /\ inst = EmptyDict
    /\ db = EmptyDict
    /\ callerWhere = <<>>
    /\ callerArgs = <<>>
    /\ last = [t \in 1..NumTasks |-> NoCoro]

Init ==
    /\ decl = Declaration("Model", PyNone, <<>>)
    /\ cls  = ModelMetaClass("Model", PyNone, <<>>)
    /\ InitRecords
    /\ InitGate

\* The gateway under concurrent callers.
Next ==
    \E t \in Tasks :
        \/ StartCreate(t) \/ CreateOk(t) \/ CreateFail(t)
        \/ StartDestroy(t) \/ Drained(t) \/ DrainFail(t)
        \/ \E c \in Calls : StartCall(t, c)
        \/ AcquireOk(t)
        \/ \E e \in {"RuntimeError", "at:acquire"} : AcquireFail(t, e)
        \/ \E ok \in BOOLEAN : Begin(t, ok)
        \/ \E ok \in BOOLEAN : Stmt(t, ok)
        \/ \E ok \in BOOLEAN : Fetch(t, ok)
        \/ \E ok \in BOOLEAN : Close(t, ok)
        \/ \E ok \in BOOLEAN : Commit(t, ok)
        \/ \E ok \in BOOLEAN : Rollback(t, ok)
        \/ \E ok \in BOOLEAN : Release(t, ok)
        \/ Return(t)

Spec == Init /\ [][Next]_vars

\* One class statement after the base class.
NextSchema ==
    /\ decl = Declaration("Model", PyNone, <<>>)
    /\ \E name \in ClassNames, table \in TableAttrs, attrs \in AttrLists(AttrValues) :
           Declare(name, table, attrs)

SpecSchema == Init /\ [][NextSchema]_vars

\* A pool that was created and is idle.
InitPoolOpen ==
    /\ pool = 1
    /\ poolState = [p \in PoolIds |-> IF p = 1 THEN "open" ELSE "none"]
    /\ pc   = [t \in Tasks |-> "idle"]
    /\ call = [t \in Tasks |-> NoCall]
    /\ ctx  = [t \in Tasks |-> 0]
    /\ conn = [t \in Tasks |-> FALSE]
    /\ cur  = [t \in Tasks |-> FALSE]
    /\ exc  = [t \in Tasks |-> "none"]
    /\ orig = [t \in Tasks |-> "none"]
    /\ log  = [t \in Tasks |-> <<>>]

\* select and execute calls of concurrent callers on a pool that has been
\* created, and that destroy_pool may close while they run.
InitCalls ==
    /\ decl = Declaration("Model", PyNone, <<>>)
    /\ cls  = ModelMetaClass("Model", PyNone, <<>>)
    /\ InitRecords
    /\ InitPoolOpen

NextCalls ==
    \E t \in Tasks :
        \/ StartDestroy(t) \/ Drained(t) \/ DrainFail(t)
        \/ \E c \in Calls : StartCall(t, c)
        \/ AcquireOk(t)
        \/ \E e \in {"RuntimeError", "at:acquire"} : AcquireFail(t, e)
        \/ \E ok \in BOOLEAN : Begin(t, ok)
        \/ \E ok \in BOOLEAN : Stmt(t, ok)
        \/ \E ok \in BOOLEAN : Fetch(t, ok)
        \/ \E ok \in BOOLEAN : Close(t, ok)
        \/ \E ok \in BOOLEAN : Commit(t, ok)
        \/ \E ok \in BOOLEAN : Rollback(t, ok)
        \/ \E ok \in BOOLEAN : Release(t, ok)
        \/ Return(t)

SpecCalls == InitCalls /\ [][NextCalls]_vars

\* The record base at work on one record type and one instance at a time,
\* over a pool that was created and an empty table.
InitOrm ==
    /\ decl \in OrmDecls
    /\ cls = ModelMetaClass(decl.name, decl.table, decl.attrs)
    /\ InitRecords
    /\ InitPoolOpen

NextOrm ==
    \/ \E kw \in Dicts(TableCols(cls), Values) : New(kw)
    \/ \E key \in TableCols(cls), value \in Values : SetAttr(key, value)
    \/ \E t \in Tasks :
          \/ Save(t)
          \/ Update(t)
          \/ Remove(t)
          \/ \E pk \in PkValues : Find(t, pk)
          \/ Bind(t)
          \/ RunSql(t)
          \/ Resume(t)

SpecOrm == InitOrm /\ [][NextOrm]_vars

\* findAll among saves: the table holds what the saves of the record type
\* have stored, instances being built with one truthy value for every
\* attribute.
InitQuery ==
    /\ decl \in OrmDecls
    /\ cls = ModelMetaClass(decl.name, decl.table, decl.attrs)
    /\ InitRecords
    /\ InitPoolOpen

NextQuery ==
    \/ \E v \in PkValues : New([c \in TableCols(cls) |-> v])
    \/ \E byKey \in BOOLEAN, v \in PkValues : NewArgs(byKey, v)
    \/ \E t \in Tasks :
          \/ Save(t)
          \/ \E passArgs \in BOOLEAN, orderBy \in BOOLEAN, limit \in Limits :
                 FindAll(t, passArgs, orderBy, limit)
          \/ Bind(t)
          \/ RunSql(t)
          \/ Resume(t)

SpecQuery == InitQuery /\ [][NextQuery]_vars

(***************************************************************************)
(* Properties of the schema registrar, under SpecSchema.                   *)
(***************************************************************************)
Declared == decl # Declaration("Model", PyNone, <<>>)

\* how many declared Field Descriptors carry the primary-key flag
NumPk(attrs) ==
    Cardinality({i \in 1..Len(attrs) : attrs[i].v.isField /\ attrs[i].v.primary_key})

IsNonKey(a) == a.v.isField /\ ~a.v.primary_key
IsKey(a)    == a.v.isField /\ a.v.primary_key
NotComma(tok) == tok # ","

\* the declared non-key attribute names, in declaration order
NonKeyNames(attrs) ==
    [i \in 1..Len(SelectSeq(attrs, IsNonKey)) |-> SelectSeq(attrs, IsNonKey)[i].k]

HasMetadata(c) ==
    /\ c.table # PyNone /\ c.primary_key # PyNone
    /\ c.select # <<>> /\ c.insert # <<>> /\ c.update # <<>> /\ c.delete # <<>>
    /\ DOMAIN c.mappings = {c.primary_key} \cup {c.fields[i] : i \in 1..Len(c.fields)}

\* C3: declaring a subclass of the base record type succeeds if and only if
\* exactly one declared Field Descriptor has the primary-key flag; then the
\* metadata is attached, otherwise the declaration raises and nothing is made.
C3_ExactlyOnePrimaryKey ==
    Declared =>
        /\ (NumPk(decl.attrs) = 1) <=> (cls.status = "registered")
        /\ cls.status = "registered" =>
              /\ HasMetadata(cls)
              /\ cls.table = (IF Falsy(decl.table) THEN decl.name ELSE decl.table)
              /\ cls.primary_key = SelectSeq(decl.attrs, IsKey)[1].k
              /\ cls.fields = NonKeyNames(decl.attrs)
        /\ cls.status # "registered" => cls.status = "raised" /\ ~HasMetadata(cls)

\* the columns an insert template lists, in order
InsertColumns(insert) ==
    SelectSeq(SubSeq(insert, 4, IndexOf(insert, ")") - 1), NotComma)

\* an instance whose every attribute holds its own name
Probe(meta) == [c \in TableCols(meta) |-> c]

\* C4: the insert template lists the non-key columns in declaration order,
\* then the primary key, with one ? per listed column, and save binds its
\* arguments in that order and number.
C4_InsertColumnOrder ==
    cls.status = "registered" =>
        /\ InsertColumns(cls.insert)
             = [i \in 1..(Len(NonKeyNames(decl.attrs)) + 1) |->
                   IF i <= Len(NonKeyNames(decl.attrs))
                   THEN Backquote(NonKeyNames(decl.attrs)[i])
                   ELSE Backquote(SelectSeq(decl.attrs, IsKey)[1].k)]
        /\ Count(cls.insert, "?") = Len(NonKeyNames(decl.attrs)) + 1
        /\ Count(SubSeq(cls.insert, 1, IndexOf(cls.insert, "values")), "?") = 0
        /\ ~SaveArgs(Probe(cls), cls).raised
        /\ Len(SaveArgs(Probe(cls), cls).args) = Count(cls.insert, "?")
        /\ [i \in 1..Len(SaveArgs(Probe(cls), cls).args) |->
               Backquote(SaveArgs(Probe(cls), cls).args[i])] = InsertColumns(cls.insert)

\* a record type with two non-key fields declared around its primary key
C4_Witness ==
    /\ cls.status = "registered"
    /\ Len(decl.attrs) = 3
    /\ IsNonKey(decl.attrs[1]) /\ IsKey(decl.attrs[2]) /\ IsNonKey(decl.attrs[3])
    /\ Len(cls.insert) > 0

\* the update template the specification describes for the record type
UpdateTemplateSpecified(meta) ==
    <<"update", Backquote(meta.table), "set">>
        \o Join([i \in 1..Len(meta.fields) |->
                    <<Backquote(IF Falsy(meta.mappings[meta.fields[i]].name)
                                THEN meta.fields[i]
                                ELSE meta.mappings[meta.fields[i]].name), "=", "?">>], ",")
        \o <<"where", Backquote(meta.primary_key), "=", "?">>

\* C5: the update template is update T set c1=?,c2=?,... where pk = ?, so
\* it holds as many ? as update() binds values: the non-key fields plus one.
C5_UpdateTemplate ==
    cls.status = "registered" =>
        /\ cls.update = UpdateTemplateSpecified(cls)
        /\ Count(cls.update, "?") = Len(UpdateArgs(Probe(cls), cls))
        /\ Count(cls.update, "?") = Len(cls.fields) + 1

(***************************************************************************)
(* Properties of the record operations, under SpecOrm and SpecQuery.       *)
(***************************************************************************)
\* the value line 268-273 is written to store for attribute c of self
Stored(self, meta, c) ==
    IF Falsy(GetAttr(self, c)) /\ meta.mappings[c].default # PyNone
    THEN meta.mappings[c].default
    ELSE GetAttr(self, c)

\* the row save() is specified to store for self
Expected(self, meta) == [c \in TableCols(meta) |-> Stored(self, meta, c)]

\* the key save() is to store for self
SavedKey(self) == Expected(self, cls)[cls.primary_key]

\* C1: save() of a record whose key is not yet stored completes without
\* raising, attributes that are absent or falsy taking their defaults, and
\* find(pk) on the table as the save left it returns a record whose
\* attributes equal the saved values.
C1_SaveFindRoundTrip ==
    [][\A t \in Tasks :
          /\ (Save(t) /\ SavedKey(inst) # PyNone /\ SavedKey(inst) \notin DOMAIN db)
                => ~last'[t].raised
          /\ (Bind(t) /\ last[t].op = "save") => ~last'[t].raised
          /\ (RunSql(t) /\ last[t].op = "save"
                /\ SavedKey(last[t].self) \notin DOMAIN db)
                => /\ ~last'[t].raised
                   /\ select(FindSql(cls), <<SavedKey(last[t].self)>>, 1, cls, db').rows
                         = <<Expected(last[t].self, cls)>>]_vars

\* C2: update() of a stored record dispatches its statement without
\* raising and changes exactly the attributes the caller resubmitted;
\* attributes absent from the submitted instance keep the value they had,
\* and no other row changes.
C2_UpdateChangesResubmitted ==
    [][\A t \in Tasks :
          /\ (Bind(t) /\ last[t].op = "update"
                /\ GetAttr(last[t].self, cls.primary_key) \in DOMAIN db)
                => ~last'[t].raised
          /\ (RunSql(t) /\ last[t].op = "update"
                /\ GetAttr(last[t].self, cls.primary_key) \in DOMAIN db)
                => /\ ~last'[t].raised
                   /\ DOMAIN db' = DOMAIN db
                   /\ \A k \in DOMAIN db :
                         db'[k] = IF k = GetAttr(last[t].self, cls.primary_key)
                                  THEN [c \in TableCols(cls) |->
                                          IF c \in DOMAIN last[t].self
                                          THEN last[t].self[c] ELSE db[k][c]]
                                  ELSE db[k]]_vars

\* C10: findAll leaves the caller's positional-argument list as it was
\* passed in, and the values bound to a dispatched query are as many as the
\* ? placeholders of that query.
C10_FindAllKeepsArgs ==
    [][\A t \in Tasks :
          /\ (\E passArgs \in BOOLEAN, orderBy \in BOOLEAN, limit \in Limits :
                 FindAll(t, passArgs, orderBy, limit))
                => callerArgs' = callerArgs
          /\ (Bind(t) /\ last[t].op = "findAll")
                => Len(BoundArgs(t)) = Count(last[t].sql, "?")]_vars

(***************************************************************************)
(* Properties of the query gateway, under Spec.                            *)
(***************************************************************************)
Has(t, event) == \E i \in 1..Len(log[t]) : log[t][i] = event

\* the transactions a finished call has ended, and its rollback attempts
Ends(t)      == Count(log[t], "commit:ok") + Count(log[t], "rollback:ok")
Rollbacks(t) == Count(log[t], "rollback:ok") + Count(log[t], "rollback:fail")
TxCalls(t) ==
    Count(log[t], "begin:ok") + Count(log[t], "begin:fail")
        + Count(log[t], "commit:ok") + Count(log[t], "commit:fail") + Rollbacks(t)

\* an execute call that got a connection has come to its end
ExecuteDone(t) == pc[t] = "done" /\ call[t].op = "execute" /\ Has(t, "acquire")

\* C6, as stated: the transaction execute(autocommit=false) began is ended
\* exactly once before the release, by commit when the statement succeeds
\* (the count is returned) and by rollback when the statement or the commit
\* fails, the original error then being re-raised; with autocommit there is
\* no begin, commit or rollback and any failure is re-raised.
C6_EndedExactlyOnce ==
    \A t \in Tasks : ExecuteDone(t) =>
        /\ log[t][Len(log[t])] = "release"
        /\ call[t].autocommit => TxCalls(t) = 0 /\ exc[t] = orig[t]
        /\ (~call[t].autocommit /\ Has(t, "begin:ok")) =>
              /\ Ends(t) = 1
              /\ IF orig[t] = "none"
                 THEN Has(t, "commit:ok") /\ exc[t] = "none"
                 ELSE /\ Has(t, "rollback:ok") /\ ~Has(t, "commit:ok")
                      /\ orig[t] \in {"at:stmt", "at:close", "at:commit"}
                      /\ exc[t] = orig[t]

\* the exceptions that can leave the cursor block when e was raised first:
\* e, or that of the cursor's exit raised while e was in flight
Leaves(e) == IF e = "at:stmt" THEN {"at:stmt", "at:close"} ELSE {e}

\* what the caller gets when one of es is in flight as the connection is
\* released: that one, or the exception of the release
Reaches(t, es) ==
    exc[t] \in es \cup {"at:release"} /\ (orig[t] = "none" => exc[t] = "none")

\* C6, amended: the transaction is ended at most once, and the release
\* comes last.  A commit that succeeds ends it and nothing is rolled back.
\* When the statement, the cursor's exit or the commit raises, exactly one
\* rollback is attempted: if it completes it ends the transaction and the
\* exception that left the try block is re-raised, if it raises no
\* transaction is ended and the rollback's exception goes on in its place.  When begin raises
\* neither commit nor rollback is issued.  An exception of the release
\* replaces whatever was to reach the caller.  With autocommit there is no
\* begin, commit or rollback.
C6_EndedOnceUnlessRollbackFails ==
    \A t \in Tasks : ExecuteDone(t) =>
        /\ log[t][Len(log[t])] = "release"
        /\ call[t].autocommit =>
              /\ TxCalls(t) = 0
              /\ orig[t] \in {"none", "at:stmt", "at:close", "at:release"}
              /\ Reaches(t, Leaves(orig[t]))
        /\ (~call[t].autocommit /\ Has(t, "begin:fail")) =>
              /\ Ends(t) = 0 /\ Rollbacks(t) = 0 /\ ~Has(t, "commit:fail")
              /\ orig[t] = "at:begin" /\ Reaches(t, {"at:begin"})
        /\ (~call[t].autocommit /\ Has(t, "begin:ok")) =>
              IF Has(t, "commit:ok")
              THEN /\ Count(log[t], "commit:ok") = 1 /\ Rollbacks(t) = 0
                   /\ exc[t] \in {"none", "at:release"} /\ orig[t] = exc[t]
              ELSE /\ orig[t] \in {"at:stmt", "at:close", "at:commit"}
                   /\ Rollbacks(t) = 1
                   /\ Has(t, "commit:fail") <=> orig[t] = "at:commit"
                   /\ IF Has(t, "rollback:ok")
                      THEN Ends(t) = 1 /\ Reaches(t, Leaves(orig[t]))
                      ELSE Ends(t) = 0 /\ Reaches(t, {"at:rollback"})

\* a transaction whose commit failed has been rolled back and the commit's
\* error is what the finished call raises
C6_Witness ==
    \E t \in Tasks :
        /\ ExecuteDone(t) /\ ~call[t].autocommit
        /\ Has(t, "commit:fail") /\ Has(t, "rollback:ok")
        /\ exc[t] = "at:commit"

\* C7: whichever way a select or execute call ends, by then the connection
\* and the cursor it acquired are released; borrowed connections never
\* outnumber the calls in flight, none is borrowed when no call is in flight,
\* and no pool has more connections out than it holds.
C7_ScopedRelease ==
    /\ \A t \in Tasks : pc[t] \in {"idle", "done"} => ~conn[t] /\ ~cur[t]
    /\ \A t \in Tasks : cur[t] => conn[t]
    /\ Cardinality({t \in Tasks : conn[t]}) <= Cardinality(InFlight)
    /\ InFlight = {} => {t \in Tasks : conn[t]} = {}
    /\ \A p \in PoolIds : Cardinality(Borrowed(p)) <= PoolSize

\* a call that held a connection has ended by raising while another call
\* has borrowed the connection it gave back
C7_Witness ==
    \E t, u \in Tasks :
        /\ pc[t] = "done" /\ Has(t, "acquire") /\ exc[t] # "none"
        /\ u # t /\ conn[u] /\ Has(u, "acquire")

\* C8: destroy_pool() with no pool created completes without raising and
\* changes nothing; with a pool, it returns only once the pool is closed and
\* every connection is back.
C8_DestroyWithoutPoolIsNoOp ==
    \A t \in Tasks : (pc[t] = "done" /\ call[t].op = "destroy_pool") =>
        IF ctx[t] = 0
        THEN exc[t] = "none" /\ log[t] = <<>>
        ELSE exc[t] = "none" =>
                poolState[ctx[t]] = "closed" /\ Borrowed(ctx[t]) = {}

\* C9: select and execute never reach for the pool while none has been
\* created or after the pool has been destroyed.
C9_PoolLifecycle ==
    \A t \in Tasks : ~Has(t, "get:unbound") /\ ~Has(t, "get:closed")

====
